---- MODULE Spec2Model ----
(***************************************************************************)
(* Model of toytools/collect.py: the toyzero dataset helpers.              *)
(*                                                                         *)
(* The module is a library of synchronous functions.  The state is the    *)
(* call in progress: which function was called (op), its arguments (args), *)
(* what it returned or raised (ret), and the state of the caller-owned     *)
(* random generator (prg), the only state that survives a call.            *)
(*                                                                         *)
(* Strings are sequences of one-character strings.  A size argument of the *)
(* split functions (Union[int, float]) is the rational num/den.            *)
(***************************************************************************)
EXTENDS Integers, Sequences, FiniteSets, TLC

VARIABLES op, args, ret, prg

vars == <<op, args, ret, prg>>

(***************************************************************************)
(* Bounds of the explored inputs.                                          *)
(***************************************************************************)
MaxN == 10
MaxSeed == 6
MaxCount == 12
MaxFracNum == 12
MaxLen == 2

\* Size arguments are written in decimal tenths: num/Den.  For these values and
\* the dataset sizes explored, the products and integer parts computed here on
\* exact rationals are the ones IEEE doubles give.
Den == 10

NoArgs == [none |-> TRUE]
NoError == [msg |-> "", a |-> <<>>, b |-> <<>>]
NoRet == [kind |-> "none", value |-> <<>>, error |-> NoError]

Returned(v) == [kind |-> "return", value |-> v, error |-> NoError]
Raised(e) == [kind |-> "raise", value |-> <<>>, error |-> e]

Range(s) == {s[i] : i \in 1..Len(s)}

(***************************************************************************)
(* Split engine: train_val_test_split, train_test_split                    *)
(***************************************************************************)

\* np.arange(n): the indices 0 .. n-1 (empty for n <= 0).
Arange(n) == [i \in 1..n |-> i - 1]

Swap(s, i, j) == [s EXCEPT ![i] = s[j], ![j] = s[i]]

\* prg.shuffle(indices): numpy's Fisher-Yates pass, for i = n-1 down to 1 swap
\* positions i and j with j drawn from 0..i.  The generator's state is a number
\* and its successive draws are the mixed-radix digits of that number, so the
\* permutation is a function of the generator state, and every permutation of up
\* to three elements is produced by some state below MaxSeed = 6.
RECURSIVE ShuffleFrom(_, _, _)
ShuffleFrom(s, i, seed) ==
    IF i < 1 THEN s
    ELSE ShuffleFrom(Swap(s, i + 1, (seed % (i + 1)) + 1), i - 1, seed \div (i + 1))

Shuffle(indices, seed) == ShuffleFrom(indices, Len(indices) - 1, seed)

\* The generator after shuffling len elements: no draw is made for fewer than two
\* elements; otherwise the state advances.
PrgAdvance(seed, len) == IF len < 2 THEN seed ELSE (seed + 1) % MaxSeed

\* int(x) of the number a/b (b > 0): truncation toward zero.
IntOf(a, b) == IF a >= 0 THEN a \div b ELSE -((-a) \div b)

\* Mutant of ResolveSize: the fraction test written as < 1, so that a size of
\* exactly 1 is an absolute count.
ResolveSizeStrict(len, size) ==
    IF size.num < size.den
    THEN IntOf(len * size.num, size.den)
    ELSE IntOf(size.num, size.den)

\* Lines 162-169: a size <= 1 is multiplied by the number of indices, and the
\* outcome is converted with int().
ResolveSize(len, size) ==
    IF size.num <= size.den
    THEN IntOf(len * size.num, size.den)
    ELSE IntOf(size.num, size.den)

Max(a, b) == IF a >= b THEN a ELSE b

\* A slice bound as Python normalises it: a negative bound counts from the end,
\* and the outcome is clamped to 0 .. len.
SliceBound(i, len) ==
    IF i < 0 THEN Max(0, i + len)
    ELSE IF i > len THEN len ELSE i

\* Mutant of Slice: the upper bound taken as inclusive.
SliceInclusive(s, lo, hi) ==
    LET a == SliceBound(lo, Len(s))
        b == SliceBound(hi + 1, Len(s))
    IN  IF a < b THEN SubSeq(s, a + 1, b) ELSE <<>>

\* s[lo:hi]
Slice(s, lo, hi) ==
    LET a == SliceBound(lo, Len(s))
        b == SliceBound(hi, Len(s))
    IN  IF a < b THEN SubSeq(s, a + 1, b) ELSE <<>>

\* Mutant of SliceFrom: the slice starts one element late.
SliceFromLate(s, lo) ==
    LET a == SliceBound(lo + 1, Len(s))
    IN  IF a < Len(s) THEN SubSeq(s, a + 1, Len(s)) ELSE <<>>

\* s[lo:]
SliceFrom(s, lo) ==
    LET a == SliceBound(lo, Len(s))
    IN  IF a < Len(s) THEN SubSeq(s, a + 1, Len(s)) ELSE <<>>

\* Mutant of TrainSize: the remainder is not clamped at zero.
TrainSizeUnclamped(len, val_int, test_int) == len - val_int - test_int

\* Line 170: train takes what val and test leave, never less than nothing.
TrainSize(len, val_int, test_int) == Max(0, len - val_int - test_int)

\* train_val_test_split(n, val_size, test_size, shuffle, prg): the returned
\* triple, the function's locals at the return, and the generator afterwards.
TrainValTestSplit(n, val_size, test_size, shuffle, seed) ==
    LET indices    == IF shuffle THEN Shuffle(Arange(n), seed) ELSE Arange(n)
        test_int   == ResolveSize(Len(indices), test_size)
        val_int    == ResolveSize(Len(indices), val_size)
        train_size == TrainSize(Len(indices), val_int, test_int)
    IN  [train      |-> Slice(indices, 0, train_size),
         val        |-> Slice(indices, train_size, train_size + val_int),
         test       |-> SliceFrom(indices, train_size + val_int),
         val_size   |-> val_int,
         test_size  |-> test_int,
         train_size |-> train_size,
         prg        |-> IF shuffle THEN PrgAdvance(seed, n) ELSE seed]

\* The integer 0 that train_test_split passes as val_size.
ZeroSize == [num |-> 0, den |-> 1]

\* Mutant of TrainTestSplit: the sizes are passed in each other's place.
TrainTestSplitSwapped(n, test_size, shuffle, seed) ==
    LET r == TrainValTestSplit(n, test_size, ZeroSize, shuffle, seed)
    IN  [train |-> r.train, test |-> r.test, prg |-> r.prg]

\* train_test_split(n, test_size, shuffle, prg)
TrainTestSplit(n, test_size, shuffle, seed) ==
    LET r == TrainValTestSplit(n, ZeroSize, test_size, shuffle, seed)
    IN  [train |-> r.train, test |-> r.test, prg |-> r.prg]

\* The sizes explored: the tenths from -MaxFracNum/10 to MaxFracNum/10 (floats,
\* fractions and non-integral counts) and the integer counts 2 .. MaxCount.
Sizes ==
    {[num |-> k, den |-> Den] : k \in (0 - MaxFracNum)..MaxFracNum}
        \cup {[num |-> k, den |-> 1] : k \in 2..MaxCount}

Seeds == 0..(MaxSeed - 1)

CallTrainValTestSplit ==
    /\ op = "idle"
    /\ \E n \in 0..MaxN, val_size \in Sizes, test_size \in Sizes, shuffle \in BOOLEAN :
         LET r == TrainValTestSplit(n, val_size, test_size, shuffle, prg)
         IN  /\ op' = "train_val_test_split"
             /\ args' = [n |-> n, val_size |-> val_size, test_size |-> test_size,
                         shuffle |-> shuffle, prg |-> prg]
             /\ ret' = Returned(r)
             /\ prg' = r.prg

CallTrainTestSplit ==
    /\ op = "idle"
    /\ \E n \in 0..MaxN, test_size \in Sizes, shuffle \in BOOLEAN :
         LET r == TrainTestSplit(n, test_size, shuffle, prg)
         IN  /\ op' = "train_test_split"
             /\ args' = [n |-> n, test_size |-> test_size,
                         shuffle |-> shuffle, prg |-> prg]
             /\ ret' = Returned(r)
             /\ prg' = r.prg

\* The call is over: the caller is back in control and keeps its generator.
Return ==
    /\ op # "idle"
    /\ op' = "idle"
    /\ args' = NoArgs
    /\ ret' = NoRet
    /\ UNCHANGED prg

Init ==
    /\ op = "idle"
    /\ args = NoArgs
    /\ ret = NoRet
    /\ prg \in Seeds

NextSplit == CallTrainValTestSplit \/ CallTrainTestSplit \/ Return

SpecSplit == Init /\ [][NextSplit]_vars

(***************************************************************************)
(* Characters and strings                                                  *)
(***************************************************************************)

LF == "\n"

\* A decimal digit outside ASCII (ARABIC-INDIC DIGIT THREE), one character.
ArabicThree == "U+0663"

AsciiDigits == <<"0", "1", "2", "3", "4", "5", "6", "7", "8", "9">>

\* What \d matches in a str pattern: any Unicode decimal digit.
IsDigit(c) == c \in Range(AsciiDigits) \cup {ArabicThree}

DigitValue(c) ==
    IF c = ArabicThree THEN 3
    ELSE (CHOOSE i \in 1..10 : AsciiDigits[i] = c) - 1

\* int(ds) of a non-empty run of decimal digits.
RECURSIVE IntOfDigits(_)
IntOfDigits(ds) ==
    IF Len(ds) = 1 THEN DigitValue(ds[1])
    ELSE 10 * IntOfDigits(SubSeq(ds, 1, Len(ds) - 1)) + DigitValue(ds[Len(ds)])

\* Code points of the characters used in file names, for the order of sort().
CharCode(c) ==
    CASE c = LF  -> 10
      [] c = "-" -> 45
      [] c = "." -> 46
      [] c = "U" -> 85
      [] c = "V" -> 86
      [] c = "W" -> 87
      [] c = "X" -> 88
      [] c = "a" -> 97
      [] c = "b" -> 98
      [] c = "c" -> 99
      [] c = "n" -> 110
      [] c = "p" -> 112
      [] c = "t" -> 116
      [] c = "x" -> 120
      [] c = "y" -> 121
      [] c = "z" -> 122
      [] c = ArabicThree -> 1635
      [] OTHER -> 48 + DigitValue(c)

\* s < t for str: lexicographic by code point, a proper prefix first.
RECURSIVE StrLess(_, _)
StrLess(s, t) ==
    IF t = <<>> THEN FALSE
    ELSE IF s = <<>> THEN TRUE
    ELSE IF s[1] # t[1] THEN CharCode(s[1]) < CharCode(t[1])
    ELSE StrLess(Tail(s), Tail(t))

NPZ == <<".", "n", "p", "z">>

(***************************************************************************)
(* Directory scanner, pair validator, collector                            *)
(***************************************************************************)

\* os.path.splitext(fname)[1]: from the last dot to the end, unless only dots
\* precede that dot (a name such as ".npz" has no extension).
SplitExt(fname) ==
    LET dots == {i \in 1..Len(fname) : fname[i] = "."}
    IN  IF dots = {} THEN <<>>
        ELSE LET dotIndex == CHOOSE i \in dots : \A j \in dots : j <= i
             IN  IF \E k \in 1..(dotIndex - 1) : fname[k] # "."
                 THEN SubSeq(fname, dotIndex, Len(fname))
                 ELSE <<>>

\* list.sort() of a set of distinct names.
RECURSIVE SortNames(_)
SortNames(names) ==
    IF names = {} THEN <<>>
    ELSE LET least == CHOOSE x \in names : \A y \in names \ {x} : StrLess(x, y)
         IN  <<least>> \o SortNames(names \ {least})

\* find_images_in_dir(path): a directory maps each name in it to "file" or
\* "dir"; the regular files with extension .npz, sorted.
FindImagesInDir(dir) ==
    SortNames({fname \in DOMAIN dir : dir[fname] = "file" /\ SplitExt(fname) = NPZ})

CountMismatch == "Number of real/fake images does not match: %d != %d"
NameMismatch == "Fake/Real image name mismatch: %s != %s"
CannotParse == "Cannot parse image name: %s"

None == "None"

\* The loop of validate_toyzero_images over zip(imgs_fake, imgs_real).
RECURSIVE ValidatePairs(_, _, _)
ValidatePairs(imgs_fake, imgs_real, i) ==
    IF i > Len(imgs_fake) \/ i > Len(imgs_real) THEN Returned(None)
    ELSE IF imgs_fake[i] # imgs_real[i]
         THEN Raised([msg |-> NameMismatch, a |-> imgs_fake[i], b |-> imgs_real[i]])
         ELSE ValidatePairs(imgs_fake, imgs_real, i + 1)

\* Mutant of ValidateToyzeroImages: the counts are not compared, and zip stops
\* at the shorter list.
ValidateWithoutCount(imgs_fake, imgs_real) == ValidatePairs(imgs_fake, imgs_real, 1)

\* validate_toyzero_images(imgs_fake, imgs_real)
ValidateToyzeroImages(imgs_fake, imgs_real) ==
    IF Len(imgs_fake) # Len(imgs_real)
    THEN Raised([msg |-> CountMismatch, a |-> Len(imgs_fake), b |-> Len(imgs_real)])
    ELSE ValidatePairs(imgs_fake, imgs_real, 1)

\* collect_toyzero_images(root): root holds the fake and the real directory.
CollectToyzeroImages(root) ==
    LET imgs_fake == FindImagesInDir(root.fake)
        imgs_real == FindImagesInDir(root.real)
        checked   == ValidateToyzeroImages(imgs_fake, imgs_real)
    IN  IF checked.kind = "raise" THEN checked ELSE Returned(imgs_fake)

(***************************************************************************)
(* Name parser and metadata filter                                         *)
(***************************************************************************)

Planes == {"U", "V", "W"}

\* Where $ matches: at the end of the string, and before a line feed that ends it.
EndPositions(s) ==
    {Len(s)} \cup (IF Len(s) > 0 /\ s[Len(s)] = LF THEN {Len(s) - 1} ELSE {})

\* The ways ^(.+)-(\d+)-([UVW])\.npz$ matches s: k characters of base, none of
\* them a line feed, and the match ending at e.
Splits(s) ==
    {ke \in (1..Len(s)) \X EndPositions(s) :
        LET k == ke[1]
            e == ke[2]
        IN  /\ k + 2 <= e - 6
            /\ \A i \in 1..k : s[i] # LF
            /\ s[k + 1] = "-"
            /\ \A i \in (k + 2)..(e - 6) : IsDigit(s[i])
            /\ s[e - 5] = "-"
            /\ s[e - 4] \in Planes
            /\ SubSeq(s, e - 3, e) = NPZ}

\* pattern.match(image): the groups of the match whose base is longest (.+ is
\* greedy), or no match.
Match(s) ==
    IF Splits(s) = {} THEN [matched |-> FALSE, base |-> <<>>, digits |-> <<>>, plane |-> ""]
    ELSE LET ke == CHOOSE x \in Splits(s) : \A y \in Splits(s) : y[1] <= x[1]
         IN  [matched |-> TRUE,
              base    |-> SubSeq(s, 1, ke[1]),
              digits  |-> SubSeq(s, ke[1] + 2, ke[2] - 6),
              plane   |-> s[ke[2] - 4]]

\* Mutant of ParseApa: only the last digit is converted.
ParseApaLastDigit(digits) == DigitValue(digits[Len(digits)])

\* Line 72: apa = int(match.group(2))
ParseApa(digits) == IntOfDigits(digits)

\* The loop of parse_images from the i-th name on, result being what was
\* appended so far.
RECURSIVE ParseFrom(_, _, _)
ParseFrom(images, i, result) ==
    IF i > Len(images) THEN Returned(result)
    ELSE LET match == Match(images[i])
         IN  IF ~match.matched
             THEN Raised([msg |-> CannotParse, a |-> images[i], b |-> <<>>])
             ELSE ParseFrom(images, i + 1,
                      Append(result, <<images[i], match.base,
                                       ParseApa(match.digits), match.plane>>))

\* The loop of the mutant of ParseImages: a name that does not match is skipped.
RECURSIVE ParseSkipping(_, _, _)
ParseSkipping(images, i, result) ==
    IF i > Len(images) THEN Returned(result)
    ELSE LET match == Match(images[i])
         IN  IF ~match.matched
             THEN ParseSkipping(images, i + 1, result)
             ELSE ParseSkipping(images, i + 1,
                      Append(result, <<images[i], match.base,
                                       ParseApa(match.digits), match.plane>>))

\* Mutant of ParseImages: skip on error.
ParseImagesSkipping(images) == ParseSkipping(images, 1, <<>>)

\* parse_images(images)
ParseImages(images) == ParseFrom(images, 1, <<>>)

\* [ x for x in parsed_images if x[field] in selected ]
RECURSIVE Keep(_, _, _)
Keep(parsed_images, field, selected) ==
    IF parsed_images = <<>> THEN <<>>
    ELSE (IF Head(parsed_images)[field] \in selected THEN <<Head(parsed_images)>> ELSE <<>>)
             \o Keep(Tail(parsed_images), field, selected)

\* An Optional[Set]: None, or a set.
Absent == [given |-> FALSE, set |-> {}]
Given(set) == [given |-> TRUE, set |-> set]

\* Mutant of FilterParsedImages: the planes are looked at only when no APAs are
\* given (elif for the second if).
FilterParsedImagesElif(parsed_images, apas, planes) ==
    IF apas.given THEN Keep(parsed_images, 3, apas.set)
    ELSE IF planes.given THEN Keep(parsed_images, 4, planes.set)
    ELSE parsed_images

\* filter_parsed_images(parsed_images, apas, planes)
FilterParsedImages(parsed_images, apas, planes) ==
    LET by_apa == IF apas.given THEN Keep(parsed_images, 3, apas.set) ELSE parsed_images
    IN  IF planes.given THEN Keep(by_apa, 4, planes.set) ELSE by_apa

\* Mutant of FilterImages: no short cut when both selectors are absent.
FilterImagesAlwaysParsing(images, apas, planes) ==
    LET parsed == ParseImages(images)
    IN  IF parsed.kind = "raise" THEN parsed
        ELSE LET kept == FilterParsedImages(parsed.value, apas, planes)
             IN  Returned([i \in 1..Len(kept) |-> kept[i][1]])

\* filter_images(images, apas, planes)
FilterImages(images, apas, planes) ==
    IF ~planes.given /\ ~apas.given THEN Returned(images)
    ELSE LET parsed == ParseImages(images)
         IN  IF parsed.kind = "raise" THEN parsed
             ELSE LET kept == FilterParsedImages(parsed.value, apas, planes)
                  IN  Returned([i \in 1..Len(kept) |-> kept[i][1]])

(***************************************************************************)
(* The inputs explored                                                     *)
(***************************************************************************)

SeqsUpTo(S, len) == UNION {[1..k -> S] : k \in 0..len}

ImageName(base, digits, plane) == base \o <<"-">> \o digits \o <<"-", plane>> \o NPZ

\* Names the pattern accepts.
GoodNames ==
    {ImageName(<<"a">>, <<"1">>, "U"),
     ImageName(<<"a">>, <<"7">>, "V"),
     ImageName(<<"b">>, <<"1">>, "W"),
     ImageName(<<"a">>, <<"0">>, "V"),
     ImageName(<<"a">>, <<"0", "7">>, "U"),
     ImageName(<<"a", "-", "b">>, <<"1", "0">>, "W"),
     ImageName(<<"a", "-", "1">>, <<"7">>, "U"),
     ImageName(<<"-">>, <<"1">>, "V"),
     ImageName(<<"a">>, <<ArabicThree>>, "U"),
     ImageName(<<"a">>, <<"1">>, "U") \o <<LF>>}

\* Names it rejects: a plane outside UVW, no base, no digits, another
\* extension, a character for the dot, a line feed in the base, no extension,
\* the empty name.
BadNames ==
    {ImageName(<<"a">>, <<"1">>, "X"),
     ImageName(<<>>, <<"1">>, "U"),
     ImageName(<<"a">>, <<>>, "U"),
     <<"a", "-", "1", "-", "U", ".", "n", "p", "y">>,
     <<"a", "-", "1", "-", "U", "x", "n", "p", "z">>,
     ImageName(<<"a", LF, "b">>, <<"1">>, "U"),
     <<"a", "-", "1", "-", "U">>,
     <<>>}

Names == GoodNames \cup BadNames

ApaSelectors == {Absent} \cup {Given(set) : set \in SUBSET {0, 1, 7}}
PlaneSelectors == {Absent} \cup {Given(set) : set \in SUBSET {"U", "V"}}

\* File names of the paired directories.
FileA == <<"a">> \o NPZ
FileB == <<"b">> \o NPZ
FileC == <<"c">> \o NPZ
FileNames == {FileA, FileB, FileC, NPZ, <<"b", ".", "t", "x", "t">>}

\* A directory: some of the names, each a regular file or a subdirectory.
Dirs == UNION {[present -> {"file", "dir"}] : present \in SUBSET FileNames}

(***************************************************************************)
(* Calls of the collector and of the parser                                *)
(***************************************************************************)

CallValidateToyzeroImages ==
    /\ op = "idle"
    /\ \E imgs_fake \in SeqsUpTo(FileNames, MaxLen), imgs_real \in SeqsUpTo(FileNames, MaxLen) :
         /\ op' = "validate_toyzero_images"
         /\ args' = [imgs_fake |-> imgs_fake, imgs_real |-> imgs_real]
         /\ ret' = ValidateToyzeroImages(imgs_fake, imgs_real)
    /\ UNCHANGED prg

CallCollectToyzeroImages ==
    /\ op = "idle"
    /\ \E fake \in Dirs, real \in Dirs :
         /\ op' = "collect_toyzero_images"
         /\ args' = [root |-> [fake |-> fake, real |-> real]]
         /\ ret' = CollectToyzeroImages([fake |-> fake, real |-> real])
    /\ UNCHANGED prg

CallParseImages ==
    /\ op = "idle"
    /\ \E images \in SeqsUpTo(Names, MaxLen) :
         /\ op' = "parse_images"
         /\ args' = [images |-> images]
         /\ ret' = ParseImages(images)
    /\ UNCHANGED prg

CallFilterParsedImages ==
    /\ op = "idle"
    /\ \E images \in SeqsUpTo(GoodNames, MaxLen), apas \in ApaSelectors, planes \in PlaneSelectors :
         /\ op' = "filter_parsed_images"
         /\ args' = [parsed_images |-> ParseImages(images).value,
                     apas |-> apas, planes |-> planes]
         /\ ret' = Returned(FilterParsedImages(ParseImages(images).value, apas, planes))
    /\ UNCHANGED prg

CallFilterImages ==
    /\ op = "idle"
    /\ \E images \in SeqsUpTo(Names, MaxLen), apas \in ApaSelectors, planes \in PlaneSelectors :
         /\ op' = "filter_images"
         /\ args' = [images |-> images, apas |-> apas, planes |-> planes]
         /\ ret' = FilterImages(images, apas, planes)
    /\ UNCHANGED prg

\* No generator is involved in these calls.
InitNames ==
    /\ op = "idle"
    /\ args = NoArgs
    /\ ret = NoRet
    /\ prg = 0

NextCollect == CallValidateToyzeroImages \/ CallCollectToyzeroImages \/ Return

SpecCollect == InitNames /\ [][NextCollect]_vars

NextParse == CallParseImages \/ CallFilterParsedImages \/ CallFilterImages \/ Return

SpecParse == InitNames /\ [][NextParse]_vars

\* Every function of the module, called with the generator in any state.
Next == NextSplit \/ NextCollect \/ NextParse

Spec == Init /\ [][Next]_vars

(***************************************************************************)
(* Properties of the split engine                                          *)
(***************************************************************************)

InSplit3 == op = "train_val_test_split"
InSplit2 == op = "train_test_split"

IsFraction(size) == 0 <= size.num /\ size.num <= size.den

\* The groups together hold every index of 0 .. n-1 exactly once.
Partitions(groups, n) ==
    /\ Len(groups) = n
    /\ \A i \in 0..(n - 1) : Cardinality({k \in 1..Len(groups) : groups[k] = i}) = 1

Tenths(k) == [num |-> k, den |-> Den]
Count(k) == [num |-> k, den |-> 1]

\* The index sequence the call slices: shuffled by the generator it was given.
IndexSequence == IF args.shuffle THEN Shuffle(Arange(args.n), args.prg) ELSE Arange(args.n)

\* C1: for fractional val_size and test_size in [0,1] and either shuffle flag,
\* the three groups have n indices in total and hold every index of [0, n)
\* exactly once.
C1_Partition ==
    (InSplit3 /\ IsFraction(args.val_size) /\ IsFraction(args.test_size)) =>
        LET r == ret.value
        IN  /\ Len(r.train) + Len(r.val) + Len(r.test) = args.n
            /\ Partitions(r.train \o r.val \o r.test, args.n)

\* A shuffled split with fractional sizes, all three groups non-empty and the
\* training group out of ascending order.
C1_Witness ==
    /\ InSplit3 /\ args.shuffle
    /\ IsFraction(args.val_size) /\ IsFraction(args.test_size)
    /\ Len(ret.value.val) > 0 /\ Len(ret.value.test) > 0
    /\ Len(ret.value.train) > 1
    /\ ret.value.train[1] > ret.value.train[2]

\* C2: when the resolved counts v, t are non-negative with v + t <= n, the groups
\* have n-v-t, v and t indices, and without shuffling they are the consecutive
\* ranges [0, n-v-t), [n-v-t, n-t), [n-t, n); the two documented examples hold.
C2_ExactSizes ==
    InSplit3 =>
        LET r == ret.value
            v == r.val_size
            t == r.test_size
            n == args.n
        IN  /\ (v >= 0 /\ t >= 0 /\ v + t <= n) =>
                  /\ Len(r.train) = n - v - t
                  /\ Len(r.val) = v
                  /\ Len(r.test) = t
                  /\ ~args.shuffle =>
                        /\ r.train = [i \in 1..(n - v - t) |-> i - 1]
                        /\ r.val = [i \in 1..v |-> n - v - t + i - 1]
                        /\ r.test = [i \in 1..t |-> n - t + i - 1]
            /\ (n = 10 /\ args.val_size = Count(2) /\ args.test_size = Count(3)
                       /\ ~args.shuffle) =>
                  /\ r.train = <<0, 1, 2, 3, 4>>
                  /\ r.val = <<5, 6>>
                  /\ r.test = <<7, 8, 9>>
            /\ (n = 10 /\ args.val_size = Tenths(2) /\ args.test_size = Tenths(2)
                       /\ ~args.shuffle) =>
                  /\ r.train = <<0, 1, 2, 3, 4, 5>>
                  /\ r.val = <<6, 7>>
                  /\ r.test = <<8, 9>>

\* An unshuffled split whose three groups are all non-empty, with one size given
\* as a fraction and the other as a count.
C2_Witness ==
    /\ InSplit3 /\ ~args.shuffle
    /\ args.val_size.den = Den /\ args.test_size.den = 1
    /\ ret.value.val_size > 0 /\ ret.value.test_size > 0
    /\ ret.value.val_size + ret.value.test_size < args.n

\* The integer part of num/den (den > 0), stated by its bounds rather than
\* computed: the integer nearest to zero-side of the quotient.
IsIntegerPart(r, num, den) ==
    IF num >= 0
    THEN r >= 0 /\ r * den <= num /\ num < (r + 1) * den
    ELSE r <= 0 /\ r * den >= num /\ num > (r - 1) * den

ResolvedAs(r, size, n) ==
    /\ (size.num <= size.den) => IsIntegerPart(r, n * size.num, size.den)
    /\ (size.num > size.den) => IsIntegerPart(r, size.num, size.den)
    /\ (size.num = size.den) => r = n
    /\ (size.num = 0) => r = 0

\* C3: each size is resolved by its value alone and independently of the other:
\* a value <= 1 becomes the integer part of n * value, a value > 1 its own
\* integer part; exactly 1 resolves to n and 0 resolves to 0.
C3_Resolution ==
    InSplit3 =>
        /\ ResolvedAs(ret.value.val_size, args.val_size, args.n)
        /\ ResolvedAs(ret.value.test_size, args.test_size, args.n)

\* val_size is exactly 1 on a dataset of several samples, and test_size is a
\* negative fraction whose product with n is not an integer.
C3_Witness ==
    /\ InSplit3 /\ args.n > 2
    /\ args.val_size.num = args.val_size.den
    /\ ret.value.val_size = args.n
    /\ args.test_size.num < 0
    /\ (args.n * args.test_size.num) % args.test_size.den # 0
    /\ ret.value.test_size < 0

Min(a, b) == IF a <= b THEN a ELSE b

Overcommitted ==
    /\ InSplit3
    /\ ret.value.val_size >= 0 /\ ret.value.test_size >= 0
    /\ ret.value.val_size + ret.value.test_size > args.n

\* What C4 says of every overcommitted split but the size of the test group
\* relative to the request.
OvercommittedGroups ==
    LET r == ret.value
        n == args.n
    IN  /\ r.train = <<>>
        /\ Len(r.val) = Min(r.val_size, n)
        /\ r.val = SubSeq(IndexSequence, 1, Min(r.val_size, n))
        /\ Len(r.test) = n - Len(r.val)
        /\ r.test = SubSeq(IndexSequence, Len(r.val) + 1, n)
        /\ Len(r.train) + Len(r.val) + Len(r.test) = n
        /\ Partitions(r.train \o r.val \o r.test, n)

\* C4 as stated: when the non-negative resolved counts exceed n together, train
\* is empty, val is the first min(val_size, n) indices, and test is what is left
\* after val, fewer indices than the requested test_size.
C4_AsStated ==
    Overcommitted =>
        /\ OvercommittedGroups
        /\ Len(ret.value.test) < ret.value.test_size

\* C4 amended: the test group is never larger than the requested test_size, and
\* is smaller whenever the requested test_size is not 0.
C4_Amended ==
    Overcommitted =>
        /\ OvercommittedGroups
        /\ Len(ret.value.test) <= ret.value.test_size
        /\ (ret.value.test_size > 0) => Len(ret.value.test) < ret.value.test_size

\* A shuffled overcommitted split in which val and test are both non-empty
\* and test is cut short.
C4_Witness ==
    /\ Overcommitted /\ args.shuffle
    /\ Len(ret.value.val) > 0
    /\ Len(ret.value.test) > 0
    /\ Len(ret.value.test) < ret.value.test_size

\* C5: train_test_split returns the train and test groups of
\* train_val_test_split called with val_size = 0 on the same n, test_size,
\* shuffle flag and generator state; the validation group of that call is
\* empty, and train and test alone partition [0, n).
C5_TwoWay ==
    InSplit2 =>
        LET three == TrainValTestSplit(args.n, Count(0), args.test_size,
                                       args.shuffle, args.prg)
            two   == ret.value
        IN  /\ two.train = three.train
            /\ two.test = three.test
            /\ prg = three.prg
            /\ three.val = <<>>
            /\ Partitions(two.train \o two.test, args.n)
            /\ (args.n = 10 /\ args.test_size = Tenths(3) /\ ~args.shuffle) =>
                  /\ two.train = <<0, 1, 2, 3, 4, 5, 6>>
                  /\ two.test = <<7, 8, 9>>

\* A shuffled two-way split with both groups non-empty that moved the generator.
C5_Witness ==
    /\ InSplit2 /\ args.shuffle
    /\ Len(ret.value.train) > 0 /\ Len(ret.value.test) > 0
    /\ ret.value.train # SubSeq(Arange(args.n), 1, Len(ret.value.train))
    /\ prg # args.prg

(***************************************************************************)
(* Properties of the validator and the collector                           *)
(***************************************************************************)

\* The positions at which two lists of equal length differ.
Differing(f, r) == {i \in 1..Len(f) : f[i] # r[i]}

Least(S) == CHOOSE i \in S : \A j \in S : i <= j

\* What C6 says a validation of f against r does.
ValidationOutcome(outcome, f, r) ==
    /\ (outcome.kind = "return") <=> (Len(f) = Len(r) /\ \A i \in 1..Len(f) : f[i] = r[i])
    /\ outcome.kind \in {"return", "raise"}
    /\ (Len(f) # Len(r)) =>
          outcome = Raised([msg |-> CountMismatch, a |-> Len(f), b |-> Len(r)])
    /\ (Len(f) = Len(r) /\ Differing(f, r) # {}) =>
          outcome = Raised([msg |-> NameMismatch,
                            a |-> f[Least(Differing(f, r))],
                            b |-> r[Least(Differing(f, r))]])

\* C6: validate_toyzero_images succeeds exactly when the lists have the same
\* length and the same name at every position; lists of different lengths raise
\* the count mismatch with both counts, lists of the same length the name
\* mismatch with the first differing pair.  collect_toyzero_images raises the
\* same error for the two directory listings and otherwise returns the fake one.
C6_Validation ==
    /\ (op = "validate_toyzero_images") =>
          ValidationOutcome(ret, args.imgs_fake, args.imgs_real)
    /\ (op = "collect_toyzero_images") =>
          LET f == FindImagesInDir(args.root.fake)
              r == FindImagesInDir(args.root.real)
          IN  /\ ValidationOutcome(ret, f, r)
              /\ (ret.kind = "return") => ret.value = f
              /\ (f = <<FileA, FileB>> /\ r = <<FileA, FileC>>) =>
                    ret = Raised([msg |-> NameMismatch, a |-> FileB, b |-> FileC])

\* The collector over fake = [a, b] and real = [a, c], with entries in both
\* directories that the scanner leaves out.
C6_Witness ==
    /\ op = "collect_toyzero_images"
    /\ FindImagesInDir(args.root.fake) = <<FileA, FileB>>
    /\ FindImagesInDir(args.root.real) = <<FileA, FileC>>
    /\ Cardinality(DOMAIN args.root.fake) > 2
    /\ Cardinality(DOMAIN args.root.real) > 2
    /\ ret.kind = "raise"

(***************************************************************************)
(* Properties of the parser and the filter                                 *)
(***************************************************************************)

Accepted(name) == Match(name).matched

\* C7: parse_images returns one record per name, in order and carrying the name,
\* when every name matches the pattern; otherwise it raises the parse error of
\* the first name that does not match and returns nothing.
C7_AllOrNothing ==
    (op = "parse_images") =>
        LET images == args.images
            bad    == {i \in 1..Len(images) : ~Accepted(images[i])}
        IN  /\ (bad = {}) =>
                  /\ ret.kind = "return"
                  /\ Len(ret.value) = Len(images)
                  /\ \A i \in 1..Len(images) : ret.value[i][1] = images[i]
            /\ (bad # {}) =>
                  /\ ret.kind = "raise"
                  /\ ret.error = [msg |-> CannotParse, a |-> images[Least(bad)], b |-> <<>>]
                  /\ ret.value = <<>>

\* A batch whose first name parses and whose last name does not.
C7_Witness ==
    /\ op = "parse_images"
    /\ Len(args.images) > 1
    /\ Accepted(args.images[1])
    /\ ~Accepted(args.images[Len(args.images)])
    /\ ret.kind = "raise"

\* str(n) for n >= 0.
RECURSIVE Decimal(_)
Decimal(n) ==
    IF n < 10 THEN <<AsciiDigits[n + 1]>>
    ELSE Decimal(n \div 10) \o <<AsciiDigits[(n % 10) + 1]>>

\* The inverse format: <base_id>-<group_id>-<category>.npz
FormatName(base_id, group_id, category) ==
    base_id \o <<"-">> \o Decimal(group_id) \o <<"-", category>> \o NPZ

RoundTrips(record) == FormatName(record[2], record[3], record[4]) = record[1]

\* C8 as stated: every parsed record's name is reproduced by formatting its
\* base_id, group_id and category.
C8_AsStated ==
    (op = "parse_images" /\ ret.kind = "return") =>
        \A i \in 1..Len(ret.value) : RoundTrips(ret.value[i])

\* A decimal numeral as str() writes it: ASCII digits, no leading zero but "0".
Canonical(digits) ==
    /\ Len(digits) >= 1
    /\ \A i \in 1..Len(digits) : digits[i] \in Range(AsciiDigits)
    /\ Len(digits) = 1 \/ digits[1] # "0"

\* The characters of a name between its base and "-<category>.npz".
DigitField(record) == SubSeq(record[1], Len(record[2]) + 2, Len(record[1]) - 6)

\* C8 amended: the name is reproduced when it ends in ".npz" (no line feed after
\* it) and its digit field is a canonical decimal numeral.
C8_Amended ==
    (op = "parse_images" /\ ret.kind = "return") =>
        \A i \in 1..Len(ret.value) :
            LET record == ret.value[i]
            IN  (record[1][Len(record[1])] # LF /\ Canonical(DigitField(record))) =>
                    RoundTrips(record)

\* A parsed name with a hyphen in its base and a group id of two digits.
C8_Witness ==
    /\ op = "parse_images" /\ ret.kind = "return"
    /\ \E i \in 1..Len(ret.value) :
          /\ "-" \in Range(ret.value[i][2])
          /\ ret.value[i][3] >= 10
          /\ RoundTrips(ret.value[i])

\* C9: filter_parsed_images returns, in order, the records whose group_id is in
\* the group-id selector (if given) and whose category is in the category
\* selector (if given); with no selector it returns its input, and filtering its
\* result again with the same selectors changes nothing.
C9_Filter ==
    (op = "filter_parsed_images") =>
        LET Wanted(x) == /\ args.apas.given => x[3] \in args.apas.set
                         /\ args.planes.given => x[4] \in args.planes.set
        IN  /\ ret.value = SelectSeq(args.parsed_images, Wanted)
            /\ (~args.apas.given /\ ~args.planes.given) => ret.value = args.parsed_images
            /\ FilterParsedImages(ret.value, args.apas, args.planes) = ret.value

\* Both selectors given; the first record has a selected group id and is dropped
\* for its category, and the last record is kept.
C9_Witness ==
    /\ op = "filter_parsed_images"
    /\ args.apas.given /\ args.planes.given
    /\ Len(args.parsed_images) > 1
    /\ args.parsed_images[1][3] \in args.apas.set
    /\ args.parsed_images[1][4] \notin args.planes.set
    /\ Len(ret.value) = 1
    /\ ret.value[1] = args.parsed_images[Len(args.parsed_images)]

\* C10: with both selectors absent filter_images returns its input without
\* parsing it, whatever names it holds; with a selector given (an empty set
\* included) a name that does not match raises the parse error, and otherwise
\* the result is the names of the records filter_parsed_images keeps from
\* parse_images(images), in input order.
C10_FilterImages ==
    (op = "filter_images") =>
        LET images == args.images
            bad    == {i \in 1..Len(images) : ~Accepted(images[i])}
            Wanted(name) ==
                /\ args.apas.given => ParseApa(Match(name).digits) \in args.apas.set
                /\ args.planes.given => Match(name).plane \in args.planes.set
        IN  /\ (~args.apas.given /\ ~args.planes.given) => ret = Returned(images)
            /\ ((args.apas.given \/ args.planes.given) /\ bad # {}) =>
                  /\ ret = ParseImages(images)
                  /\ ret = Raised([msg |-> CannotParse, a |-> images[Least(bad)], b |-> <<>>])
            /\ ((args.apas.given \/ args.planes.given) /\ bad = {}) =>
                  LET kept == FilterParsedImages(ParseImages(images).value,
                                                 args.apas, args.planes)
                  IN  /\ ret = Returned([i \in 1..Len(kept) |-> kept[i][1]])
                      /\ ret.value = SelectSeq(images, Wanted)

\* No selector, and a name in the list that the pattern rejects.
C10_Witness ==
    /\ op = "filter_images"
    /\ ~args.apas.given /\ ~args.planes.given
    /\ \E i \in 1..Len(args.images) : ~Accepted(args.images[i])
    /\ ret.kind = "return"

====
